---------------------------- MODULE Spec2Model ----------------------------
(***************************************************************************)
(* A model of main.py: the bubble scan of detect_filled_bubbles, the       *)
(* section table of scan_omr and the column reconciliation of              *)
(* process_missing_section.                                                *)
(*                                                                         *)
(* Numbers.  The source computes the geometry in binary64 and truncates    *)
(* with int().  Here a percentage is an integer number of tenths of a      *)
(* percent (90.5 is 905), a real width or height is the pair               *)
(* <<numerator, denominator>> and int() of a non-negative value is \div.   *)
(* On every image side and section used below the exact value and the      *)
(* binary64 value truncate to the same pixel (all products involved are    *)
(* far below 2^53 and none lands within an ulp of an integer from below).  *)
(* A fill ratio is a record: np.int64 / int gives nan for 0/0 and a        *)
(* quotient otherwise; min_fill_ratio is <<numerator, denominator>>.       *)
(*                                                                         *)
(* Labels.  Option labels are strings ("1" for the integer option 1), so   *)
(* that a label can be compared with the 'X' of the missing-column entry.  *)
(***************************************************************************)
EXTENDS Integers, Sequences, FiniteSets, TLC

VARIABLES
    img_shape,        \* <<height, width>> of img_thresh
    fg,               \* the pixels <<y, x>> of img_thresh whose value is 255
    sections,         \* the section table handed to detect_filled_bubbles
    si, q, o,         \* the three loop counters of detect_filled_bubbles
    filled_bubbles,   \* the dict: section name -> list of <<question, option>>
    total_pixels,     \* locals of the last loop body executed
    black_pixels,
    fill_ratio,
    examined,         \* history: the cells whose loop body has run, in order
    target,           \* the cell painted in the reference scenario, or NoTarget
    section_name,     \* arguments and locals of process_missing_section
    expected_columns,
    detected,
    mapping,          \* column label -> the kept tuple object
    result,           \* list of tuple objects
    i, j,             \* positions of the two loops of process_missing_section
    pc

vars == <<img_shape, fg, sections, si, q, o, filled_bubbles, total_pixels,
          black_pixels, fill_ratio, examined, target, section_name,
          expected_columns, detected, mapping, result, i, j, pc>>

scanVars == <<img_shape, fg, sections, si, q, o, total_pixels, black_pixels,
              fill_ratio, examined, target>>

recVars == <<section_name, expected_columns, detected, mapping, result, i, j>>

-----------------------------------------------------------------------------
(* Bounds of the model *)

MaxSide == 4      \* image sides of the small scans are MaxSide-1 .. MaxSide
MaxFg == 3        \* at most MaxFg foreground pixels in a small image
MaxDet == 3       \* at most MaxDet raw detections handed to the reconciler

-----------------------------------------------------------------------------
(* Section tables *)

Section(name, x1p, x2p, y1p, y2p, options, num_questions, min_fill_ratio) ==
    [section_name |-> name, x1_perc |-> x1p, x2_perc |-> x2p,
     y1_perc |-> y1p, y2_perc |-> y2p, options |-> options,
     num_questions |-> num_questions, min_fill_ratio |-> min_fill_ratio]

Range1(n) == [k \in 1..n |-> ToString(k)]

\* scan_omr's table; percentages in tenths of a percent
RefSections ==
    << Section("MCQ Section 1", 80, 240, 190, 905, <<"A", "B", "C", "D">>, 25, <<5, 100>>),
       Section("MCQ Section 2", 310, 465, 190, 905, <<"A", "B", "C", "D">>, 25, <<5, 100>>),
       Section("Roll Number", 490, 615, 240, 385, Range1(6), 10, <<3, 10>>),
       Section("Registration", 490, 615, 455, 602, Range1(6), 10, <<3, 10>>),
       Section("Subject Code", 675, 740, 455, 602, Range1(3), 10, <<25, 100>>),
       Section("Set Code", 675, 740, 240, 340, <<"Set">>, 4, <<1, 100>>) >>

RefShape == <<100, 100>>

\* small tables for the exhaustive scans
SmallTables ==
    { << Section("S1", 0, 500, 0, 1000, <<"A", "B">>, 2, <<1, 2>>) >>,
      << Section("S1", 0, 500, 0, 1000, <<"A", "B", "C">>, 2, <<1, 4>>),
         Section("S2", 500, 1000, 0, 500, <<"1">>, 1, <<1, 4>>) >>,
      << Section("S1", 0, 1000, 0, 1000, <<"A", "B">>, 2, <<1, 2>>) >> }

Sides == (MaxSide - 1)..MaxSide

Shapes == Sides \X Sides

Pixels(shape) == (0..(shape[1] - 1)) \X (0..(shape[2] - 1))

RECURSIVE SubsetsUpTo(_, _)
SubsetsUpTo(S, n) ==
    IF n = 0 THEN {{}}
    ELSE LET smaller == SubsetsUpTo(S, n - 1)
         IN  smaller \cup {T \cup {x} : T \in smaller, x \in S}

-----------------------------------------------------------------------------
(* Geometry: main.py lines 25-37 *)

PercToPx(perc, dim) == (perc * dim) \div 1000

SectionBox(sec, shape) ==
    [x1 |-> PercToPx(sec.x1_perc, shape[2]), x2 |-> PercToPx(sec.x2_perc, shape[2]),
     y1 |-> PercToPx(sec.y1_perc, shape[1]), y2 |-> PercToPx(sec.y2_perc, shape[1])]

RowHeight(sec, box) == <<box.y2 - box.y1, sec.num_questions>>

ColWidth(sec, box) == <<box.x2 - box.x1, Len(sec.options)>>

CellX1(x1, oo, col_width) == x1 + (oo * col_width[1]) \div col_width[2]

\* a right edge measured from the cell's own left edge with a truncated width
CellX2Relative(x1, oo, col_width) ==
    CellX1(x1, oo, col_width) + col_width[1] \div col_width[2]

CellX2(x1, oo, col_width) == x1 + ((oo + 1) * col_width[1]) \div col_width[2]

CellY1(y1, qq, row_height) == y1 + (qq * row_height[1]) \div row_height[2]

\* a bottom edge one row too far
CellY2OffByOne(y1, qq, row_height) ==
    y1 + ((qq + 2) * row_height[1]) \div row_height[2]

CellY2(y1, qq, row_height) == y1 + ((qq + 1) * row_height[1]) \div row_height[2]

CellRect(sec, shape, qq, oo) ==
    LET box == SectionBox(sec, shape)
    IN  [cx1 |-> CellX1(box.x1, oo, ColWidth(sec, box)),
         cx2 |-> CellX2(box.x1, oo, ColWidth(sec, box)),
         cy1 |-> CellY1(box.y1, qq, RowHeight(sec, box)),
         cy2 |-> CellY2(box.y1, qq, RowHeight(sec, box))]

Min(a, b) == IF a < b THEN a ELSE b

\* img_thresh[cy1:cy2, cx1:cx2]: the slice clips to the image and is empty
\* when an upper bound does not exceed the lower one
CellPixels(rect, shape) ==
    (rect.cy1..(Min(rect.cy2, shape[1]) - 1)) \X (rect.cx1..(Min(rect.cx2, shape[2]) - 1))

-----------------------------------------------------------------------------
(* Fill classification: main.py lines 39-43 *)

NaN == [nan |-> TRUE, num |-> 0, den |-> 0]

FillRatio(black, total) ==
    IF total = 0 THEN NaN ELSE [nan |-> FALSE, num |-> black, den |-> total]

\* a comparison that lets nan through
ExceedsOrNaN(ratio, min_fill_ratio) ==
    \/ ratio.nan
    \/ ratio.num * min_fill_ratio[2] > min_fill_ratio[1] * ratio.den

\* a comparison that is not strict
ExceedsOrEquals(ratio, min_fill_ratio) ==
    /\ ~ratio.nan
    /\ ratio.num * min_fill_ratio[2] >= min_fill_ratio[1] * ratio.den

\* fill_ratio > min_fill_ratio; every comparison with nan is false
Exceeds(ratio, min_fill_ratio) ==
    /\ ~ratio.nan
    /\ ratio.num * min_fill_ratio[2] > min_fill_ratio[1] * ratio.den

SetDefault(fb, name) ==
    IF name \in DOMAIN fb THEN fb ELSE fb @@ (name :> << >>)

\* the new tuple put in front of the list
RecordInFront(fb, name, det) ==
    [SetDefault(fb, name) EXCEPT ![name] = <<det>> \o @]

\* filled_bubbles.setdefault(section_name, []).append((q + 1, option))
Record(fb, name, det) ==
    [SetDefault(fb, name) EXCEPT ![name] = Append(@, det)]

\* the key created before the ratio is looked at
StoreEager(fb, name, ratio, min_fill_ratio, det) ==
    IF Exceeds(ratio, min_fill_ratio)
    THEN Record(fb, name, det)
    ELSE SetDefault(fb, name)

Store(fb, name, ratio, min_fill_ratio, det) ==
    IF Exceeds(ratio, min_fill_ratio) THEN Record(fb, name, det) ELSE fb

-----------------------------------------------------------------------------
(* The three nested loops: main.py lines 24, 32, 33 *)

\* range(num_questions - 1): the last row is never visited
AdvanceShortRows(secs, pos) ==
    LET sec == secs[pos[1]]
    IN  IF pos[3] + 1 < Len(sec.options) THEN <<pos[1], pos[2], pos[3] + 1>>
        ELSE IF pos[2] + 2 < sec.num_questions THEN <<pos[1], pos[2] + 1, 0>>
        ELSE <<pos[1] + 1, 0, 0>>

\* the position <<si, q, o>> after the loop body at pos
Advance(secs, pos) ==
    LET sec == secs[pos[1]]
    IN  IF pos[3] + 1 < Len(sec.options) THEN <<pos[1], pos[2], pos[3] + 1>>
        ELSE IF pos[2] + 1 < sec.num_questions THEN <<pos[1], pos[2] + 1, 0>>
        ELSE <<pos[1] + 1, 0, 0>>

-----------------------------------------------------------------------------
(* Initial states *)

NoTarget == <<"", 0, "">>

RecIdle ==
    /\ section_name = ""
    /\ expected_columns = << >>
    /\ detected = << >>
    /\ mapping = << >>
    /\ result = << >>
    /\ i = 0
    /\ j = 0

ScanStart ==
    /\ si = 1
    /\ q = 0
    /\ o = 0
    /\ filled_bubbles = << >>
    /\ total_pixels = 0
    /\ black_pixels = 0
    /\ fill_ratio = FillRatio(0, 1)
    /\ examined = << >>
    /\ pc = "scan"

\* detect_filled_bubbles on a small image under a small table
Init ==
    /\ img_shape \in Shapes
    /\ fg \in SubsetsUpTo(Pixels(img_shape), MaxFg)
    /\ sections \in SmallTables
    /\ target = NoTarget
    /\ ScanStart
    /\ RecIdle

\* the reference scenario: one cell of scan_omr's table painted on 100 x 100
InitRef ==
    /\ img_shape = RefShape
    /\ sections = RefSections
    /\ \E s \in 1..Len(RefSections) :
         \E qq \in 0..(RefSections[s].num_questions - 1) :
           \E oo \in 0..(Len(RefSections[s].options) - 1) :
             /\ target = <<RefSections[s].section_name, qq + 1,
                           RefSections[s].options[oo + 1]>>
             /\ fg = CellPixels(CellRect(RefSections[s], RefShape, qq, oo), RefShape)
    /\ ScanStart
    /\ RecIdle

-----------------------------------------------------------------------------
(* detect_filled_bubbles *)

\* one execution of the loop body, lines 34-43, and the step of the loops
ScanCell ==
    /\ pc = "scan"
    /\ si <= Len(sections)
    /\ LET sec == sections[si]
           option == sec.options[o + 1]
           rect == CellRect(sec, img_shape, q, o)
           cell == CellPixels(rect, img_shape)
           total == Cardinality(cell)
           black == Cardinality(cell \cap fg)
           ratio == FillRatio(black, total)
           next == Advance(sections, <<si, q, o>>)
       IN  /\ total_pixels' = total
           /\ black_pixels' = black
           /\ fill_ratio' = ratio
           /\ filled_bubbles' = Store(filled_bubbles, sec.section_name, ratio,
                                      sec.min_fill_ratio, <<q + 1, option>>)
           /\ examined' = Append(examined,
                                 [section_name |-> sec.section_name, row |-> q + 1,
                                  option |-> option, rect |-> rect])
           /\ si' = next[1]
           /\ q' = next[2]
           /\ o' = next[3]
    /\ UNCHANGED <<img_shape, fg, sections, target, pc>>
    /\ UNCHANGED recVars

\* line 44
Return ==
    /\ pc = "scan"
    /\ si > Len(sections)
    /\ pc' = "done"
    /\ UNCHANGED <<filled_bubbles>>
    /\ UNCHANGED scanVars
    /\ UNCHANGED recVars

Next == ScanCell \/ Return

Spec == Init /\ [][Next]_vars

SpecRef == InitRef /\ [][Next]_vars

-----------------------------------------------------------------------------
(* process_missing_section: main.py lines 95-121 *)

\* None; no row index is None, every row index being q + 1 >= 1
None == 0

\* A tuple object: its value tup and its identity pos, the position in
\* detected of a tuple of the input and 0 for a tuple built at line 119.
Obj(dets, k) == [pos |-> k, tup |-> dets[k]]

Missing == [pos |-> 0, tup |-> <<None, "X">>]

\* a comparison that is not strict: a later tuple of the same row replaces
ReplacesOrEqual(question, kept) == question <= kept[1]

\* line 109: question < mapping[col][0]
Replaces(question, kept) == question < kept[1]

\* lines 106-112, for the tuple detected[k]
Remember(map, dets, k) ==
    LET question == dets[k][1]
        col == dets[k][2]
    IN  IF col \in DOMAIN map
        THEN IF Replaces(question, map[col].tup)
             THEN [map EXCEPT ![col] = Obj(dets, k)]
             ELSE map
        ELSE map @@ (col :> Obj(dets, k))

\* a missing column left out of the result
EmitEntryNoMissing(res, map, col) ==
    IF col \in DOMAIN map THEN Append(res, map[col]) ELSE res

\* the (None, 'X') entries gathered in front of the result
EmitEntryMissingFirst(res, map, col) ==
    IF col \in DOMAIN map THEN Append(res, map[col]) ELSE <<Missing>> \o res

\* lines 116-119
EmitEntry(res, map, col) ==
    IF col \in DOMAIN map THEN Append(res, map[col]) ELSE Append(res, Missing)

RowChoices == {1, 3, 5}

ColChoices == {"2", "3", "7"}

ExpectedChoices == { <<"1", "2", "3">>, <<"2", "3">> }

RECURSIVE SeqsUpTo(_, _)
SeqsUpTo(S, n) ==
    IF n = 0 THEN {<< >>}
    ELSE LET shorter == SeqsUpTo(S, n - 1)
         IN  shorter \cup {Append(t, x) : t \in shorter, x \in S}

DetectionLists == SeqsUpTo(RowChoices \X ColChoices, MaxDet)

\* a call of process_missing_section on a ScanResult that has the section
\* with some list, that is empty, or that has another section only
InitRec ==
    /\ section_name = "Roll Number"
    /\ expected_columns \in ExpectedChoices
    /\ filled_bubbles \in
         {("Roll Number" :> d) : d \in DetectionLists}
           \cup {<< >>, ("Registration" :> <<<<1, "2">>>>)}
    /\ detected = << >>
    /\ mapping = << >>
    /\ result = << >>
    /\ i = 0
    /\ j = 0
    /\ img_shape = <<0, 0>>
    /\ fg = {}
    /\ sections = << >>
    /\ si = 0
    /\ q = 0
    /\ o = 0
    /\ total_pixels = 0
    /\ black_pixels = 0
    /\ fill_ratio = FillRatio(0, 1)
    /\ examined = << >>
    /\ target = NoTarget
    /\ pc = "start"

\* lines 102-104
GetDetected ==
    /\ pc = "start"
    /\ detected' = IF section_name \in DOMAIN filled_bubbles
                   THEN filled_bubbles[section_name] ELSE << >>
    /\ mapping' = << >>
    /\ i' = 1
    /\ pc' = "map"
    /\ UNCHANGED <<filled_bubbles, section_name, expected_columns, result, j>>
    /\ UNCHANGED scanVars

\* one iteration of the loop of line 105
MapStep ==
    /\ pc = "map"
    /\ i <= Len(detected)
    /\ mapping' = Remember(mapping, detected, i)
    /\ i' = i + 1
    /\ UNCHANGED <<filled_bubbles, section_name, expected_columns, detected,
                   result, j, pc>>
    /\ UNCHANGED scanVars

\* line 114
StartResult ==
    /\ pc = "map"
    /\ i > Len(detected)
    /\ result' = << >>
    /\ j' = 1
    /\ pc' = "emit"
    /\ UNCHANGED <<filled_bubbles, section_name, expected_columns, detected,
                   mapping, i>>
    /\ UNCHANGED scanVars

\* one iteration of the loop of line 115
EmitStep ==
    /\ pc = "emit"
    /\ j <= Len(expected_columns)
    /\ result' = EmitEntry(result, mapping, expected_columns[j])
    /\ j' = j + 1
    /\ UNCHANGED <<filled_bubbles, section_name, expected_columns, detected,
                   mapping, i, pc>>
    /\ UNCHANGED scanVars

\* line 121
ReturnResult ==
    /\ pc = "emit"
    /\ j > Len(expected_columns)
    /\ pc' = "returned"
    /\ UNCHANGED <<filled_bubbles>>
    /\ UNCHANGED recVars
    /\ UNCHANGED scanVars

NextRec == GetDetected \/ MapStep \/ StartResult \/ EmitStep \/ ReturnResult

SpecRec == InitRec /\ [][NextRec]_vars

-----------------------------------------------------------------------------
(* Vocabulary of the properties *)

SectionNames == {sections[s].section_name : s \in DOMAIN sections}

SectionNamed(name) ==
    CHOOSE sec \in {sections[s] : s \in DOMAIN sections} : sec.section_name = name

ListOf(name) ==
    IF name \in DOMAIN filled_bubbles THEN filled_bubbles[name] ELSE << >>

Listed(name, det) == \E k \in DOMAIN ListOf(name) : ListOf(name)[k] = det

\* the pixel counts of an examined cell, taken from the image itself
AreaOf(e) == Cardinality(CellPixels(e.rect, img_shape))

BlackOf(e) == Cardinality(CellPixels(e.rect, img_shape) \cap fg)

\* the cell's ratio is strictly above / exactly at its section's threshold
Above(e) ==
    LET thr == SectionNamed(e.section_name).min_fill_ratio
    IN  AreaOf(e) > 0 /\ BlackOf(e) * thr[2] > thr[1] * AreaOf(e)

AtThreshold(e) ==
    LET thr == SectionNamed(e.section_name).min_fill_ratio
    IN  AreaOf(e) > 0 /\ BlackOf(e) * thr[2] = thr[1] * AreaOf(e)

IndexIn(seq, x) == CHOOSE k \in DOMAIN seq : seq[k] = x

Abs(n) == IF n < 0 THEN -n ELSE n

Width(rect) == rect.cx2 - rect.cx1

Height(rect) == rect.cy2 - rect.cy1

LastExamined == examined[Len(examined)]

-----------------------------------------------------------------------------
(* C1: when process_missing_section returns, the result has exactly        *)
(* len(expected_columns) entries, whatever the raw detections are and      *)
(* whether or not the section is a key of the ScanResult.                  *)
C1_LengthIsExpected ==
    pc = "returned" => Len(result) = Len(expected_columns)

\* returned with a column detected twice, a column never detected and a
\* detection whose label is no expected column
C1_Witness ==
    /\ pc = "returned"
    /\ \E a, b \in DOMAIN detected :
         a # b /\ detected[a][2] = detected[b][2] /\ detected[a][2] = "2"
    /\ \E c \in DOMAIN detected : detected[c][2] = "7"
    /\ \E p \in DOMAIN result : result[p] = Missing

(* C2: the entry kept for a column is, among the detections of that        *)
(* column, one of smallest row index, and among those of smallest row      *)
(* index the one that comes first in the input order.                      *)
C2_SmallestRowFirstSeen ==
    pc \in {"emit", "returned"} =>
      /\ \A col \in DOMAIN mapping :
           LET kept == mapping[col]
           IN  /\ kept.pos \in DOMAIN detected
               /\ kept.tup = detected[kept.pos]
               /\ kept.tup[2] = col
               /\ \A m \in DOMAIN detected :
                    detected[m][2] = col =>
                      \/ kept.tup[1] < detected[m][1]
                      \/ kept.tup[1] = detected[m][1] /\ kept.pos <= m
      /\ \A p \in DOMAIN result :
           result[p] # Missing => result[p] = mapping[expected_columns[p]]

\* three detections of column "2": a larger row first, then the smallest
\* row twice; the second tuple is the one in the result
C2_Witness ==
    /\ pc = "returned"
    /\ Len(detected) = 3
    /\ \A m \in DOMAIN detected : detected[m][2] = "2"
    /\ detected[1][1] > detected[2][1]
    /\ detected[2][1] = detected[3][1]
    /\ \E p \in DOMAIN result : result[p].pos = 2

(* C3: the i-th entry of the result is (None, 'X') exactly when no         *)
(* detection has the column label expected_columns[i]; otherwise it is a   *)
(* tuple of the input whose column label is expected_columns[i].           *)
C3_MissingIffUndetected ==
    pc = "returned" =>
      /\ DOMAIN result = DOMAIN expected_columns
      /\ \A p \in DOMAIN result :
           LET seen == \E m \in DOMAIN detected : detected[m][2] = expected_columns[p]
           IN  /\ (result[p].tup = <<None, "X">>) <=> ~seen
               /\ seen => /\ result[p].pos \in DOMAIN detected
                          /\ result[p].tup = detected[result[p].pos]
                          /\ result[p].tup[2] = expected_columns[p]

\* expected_columns = [1, 2, 3] and detections = [(5, 2)]
C3_Witness ==
    /\ pc = "returned"
    /\ expected_columns = <<"1", "2", "3">>
    /\ detected = << <<5, "2">> >>
    /\ [p \in DOMAIN result |-> result[p].tup]
         = << <<None, "X">>, <<5, "2">>, <<None, "X">> >>

(* C4: every list of the ScanResult is in row-major scan order (ascending  *)
(* row, then ascending position of the option in the section's options),   *)
(* and filled cells of one row are all kept.                               *)
C4_RowMajorOrder ==
    /\ \A name \in DOMAIN filled_bubbles :
         LET list == filled_bubbles[name]
             opts == SectionNamed(name).options
         IN  \A a, b \in DOMAIN list :
               a < b =>
                 \/ list[a][1] < list[b][1]
                 \/ /\ list[a][1] = list[b][1]
                    /\ IndexIn(opts, list[a][2]) < IndexIn(opts, list[b][2])
    /\ \A a, b \in DOMAIN examined :
         ( /\ a # b
           /\ examined[a].section_name = examined[b].section_name
           /\ examined[a].row = examined[b].row
           /\ Above(examined[a])
           /\ Above(examined[b]) )
         => /\ Listed(examined[a].section_name, <<examined[a].row, examined[a].option>>)
            /\ Listed(examined[b].section_name, <<examined[b].row, examined[b].option>>)

\* two options of row 1 and an option of row 2 in one list
C4_Witness ==
    /\ pc = "done"
    /\ "S1" \in DOMAIN filled_bubbles
    /\ Len(filled_bubbles["S1"]) = 3
    /\ filled_bubbles["S1"][1][1] = 1
    /\ filled_bubbles["S1"][2][1] = 1
    /\ filled_bubbles["S1"][3][1] = 2

(* C5: an examined cell is in its section's list exactly when its fill     *)
(* ratio is strictly greater than the section's threshold; a ratio equal   *)
(* to the threshold is not filled.                                         *)
C5_StrictThreshold ==
    \A k \in DOMAIN examined :
      Listed(examined[k].section_name, <<examined[k].row, examined[k].option>>)
        <=> Above(examined[k])

\* a cell exactly at its threshold, not recorded, and a recorded cell
C5_Witness ==
    /\ \E k \in DOMAIN examined :
         /\ AtThreshold(examined[k])
         /\ ~Listed(examined[k].section_name, <<examined[k].row, examined[k].option>>)
    /\ \E k \in DOMAIN examined :
         Listed(examined[k].section_name, <<examined[k].row, examined[k].option>>)

C7_KeyIffDetection ==
    /\ DOMAIN filled_bubbles \subseteq SectionNames
    /\ \A name \in SectionNames :
         name \in DOMAIN filled_bubbles
           <=> \E k \in DOMAIN examined :
                 examined[k].section_name = name /\ Above(examined[k])
    /\ \A name \in DOMAIN filled_bubbles : filled_bubbles[name] # << >>

\* a finished scan of two sections of which only the first has a key
C7_Witness ==
    /\ pc = "done"
    /\ Len(sections) = 2
    /\ DOMAIN filled_bubbles = {"S1"}

(* C8: a finished scan has examined, for every section, each pair of a row *)
(* in 1..num_questions and an option exactly once, num_questions *         *)
(* len(options) cells in all; every detection is such a pair and no        *)
(* detection occurs twice in a list.                                       *)
C8_EveryCellOnce ==
    /\ pc = "done" =>
         \A s \in DOMAIN sections :
           LET sec == sections[s]
               mine == {k \in DOMAIN examined :
                          examined[k].section_name = sec.section_name}
           IN  /\ Cardinality(mine) = sec.num_questions * Len(sec.options)
               /\ \A r \in 1..sec.num_questions :
                    \A c \in DOMAIN sec.options :
                      Cardinality({k \in mine : /\ examined[k].row = r
                                                /\ examined[k].option = sec.options[c]}) = 1
    /\ \A name \in DOMAIN filled_bubbles :
         LET list == filled_bubbles[name]
             sec == SectionNamed(name)
         IN  /\ \A a \in DOMAIN list :
                  /\ list[a][1] \in 1..sec.num_questions
                  /\ \E c \in DOMAIN sec.options : sec.options[c] = list[a][2]
             /\ \A a, b \in DOMAIN list : a # b => list[a] # list[b]

\* a finished scan of a table of two sections, 3 * 2 + 1 cells, with a
\* detection in the last row
C8_Witness ==
    /\ pc = "done"
    /\ Len(sections) = 2
    /\ Len(examined) = 7
    /\ Listed("S1", <<2, "C">>)

(* C9: in the reference scenario (scan_omr's table, 100 x 100 image whose  *)
(* foreground is exactly one cell's rectangle) the finished scan has one   *)
(* key, the painted cell's section, mapped to the one-element list of the  *)
(* painted cell; no key of another section ever appears.                   *)
C9_OnlyThePaintedCell ==
    /\ DOMAIN filled_bubbles \subseteq {target[1]}
    /\ pc = "done" =>
         /\ DOMAIN filled_bubbles = {target[1]}
         /\ filled_bubbles[target[1]] = << <<target[2], target[3]>> >>

\* MCQ Section 1, row 1, option 'B'
C9_Witness ==
    /\ pc = "done"
    /\ target = <<"MCQ Section 1", 1, "B">>
    /\ filled_bubbles = ("MCQ Section 1" :> << <<1, "B">> >>)

AdjacentInRow(a, b) ==
    /\ a.section_name = b.section_name
    /\ a.row = b.row
    /\ \E c \in DOMAIN SectionNamed(a.section_name).options :
         /\ c + 1 \in DOMAIN SectionNamed(a.section_name).options
         /\ SectionNamed(a.section_name).options[c] = a.option
         /\ SectionNamed(a.section_name).options[c + 1] = b.option

AdjacentInColumn(a, b) ==
    /\ a.section_name = b.section_name
    /\ a.option = b.option
    /\ a.row + 1 = b.row

\* the table and image of the scan under way, every small table on every
\* small image, and scan_omr's table on the reference image
GeometryCases ==
    {<<sections, img_shape>>, <<RefSections, RefShape>>} \cup (SmallTables \X Shapes)

(* C10, as claimed: for some image size and section, two adjacent cells    *)
(* are separated by a gap or overlap: the right (bottom) edge computed for *)
(* one differs from the left (top) edge computed for the next.             *)
C10_SomeGapOrOverlap ==
    \E g \in GeometryCases :
      \E s \in DOMAIN g[1] :
        LET sec == g[1][s]
        IN  \/ \E qq \in 0..(sec.num_questions - 1) :
                 \E oo \in 0..(Len(sec.options) - 2) :
                   CellRect(sec, g[2], qq, oo).cx2 # CellRect(sec, g[2], qq, oo + 1).cx1
            \/ \E qq \in 0..(sec.num_questions - 2) :
                 \E oo \in 0..(Len(sec.options) - 1) :
                   CellRect(sec, g[2], qq, oo).cy2 # CellRect(sec, g[2], qq + 1, oo).cy1

(* C10, amended: two adjacent cells always share their common edge (no gap *)
(* and no overlap); the independent truncation only makes the widths of    *)
(* cells adjacent in a row, and the heights of cells adjacent in a column, *)
(* differ by at most one pixel.                                            *)
C10_SharedEdgeUnevenSize ==
    \A a, b \in DOMAIN examined :
      /\ AdjacentInRow(examined[a], examined[b]) =>
           /\ examined[a].rect.cx2 = examined[b].rect.cx1
           /\ Abs(Width(examined[a].rect) - Width(examined[b].rect)) <= 1
      /\ AdjacentInColumn(examined[a], examined[b]) =>
           /\ examined[a].rect.cy2 = examined[b].rect.cy1
           /\ Abs(Height(examined[a].rect) - Height(examined[b].rect)) <= 1

\* cells adjacent in a row whose widths differ by one pixel, and cells
\* adjacent in a column whose heights differ by one pixel
C10_Witness ==
    /\ \E a, b \in DOMAIN examined :
         /\ AdjacentInRow(examined[a], examined[b])
         /\ Abs(Width(examined[a].rect) - Width(examined[b].rect)) = 1
    /\ \E a, b \in DOMAIN examined :
         /\ AdjacentInColumn(examined[a], examined[b])
         /\ Abs(Height(examined[a].rect) - Height(examined[b].rect)) = 1

=============================================================================
